---------------------------- MODULE Spec2Model ----------------------------
(***************************************************************************)
(* fallbackdm: a minimal session controller.                               *)
(*                                                                         *)
(*   src/src/pam.rs    PasswordlessClient (new_client, authenticate,       *)
(*                     open_session, get_env, set_env, Drop), SimpleConv,  *)
(*                     converse (the PAM conversation callback)            *)
(*   src/src/main.rs   check_vt_status, start_pam_session, connect_to_dbus,*)
(*                     send_take_control_message,                          *)
(*                     send_release_control_message, take_control, main    *)
(*   src/src/input.rs  wait_for_keyboard_event                             *)
(*                                                                         *)
(* Three specifications share the variables:                               *)
(*   Spec        one run of main()                                         *)
(*   ClientSpec  a PasswordlessClient driven by any sequence of calls      *)
(*   ConvSpec    one call of converse() on any batch of messages           *)
(*                                                                         *)
(* Everything outside the repository (libpam, logind over D-Bus, the       *)
(* kernel's tty, libinput) is the environment: each of its answers is an   *)
(* input chosen with \E.  `log' records, in order, every call made to      *)
(* libpam and to logind together with the answer.                          *)
(***************************************************************************)
EXTENDS Integers, Sequences, FiniteSets

VARIABLES
    \* ---- main.rs: position and locals of main() / take_control() ----
    pc,               \* the statement main()'s thread is at
    outcome,          \* "running" | "ok" | "err" (an Err returned by ?) | "panic"
    exit_status,      \* "running" | "0" | "1" | "101"
    conn,             \* the D-Bus connection: "none" | "open" | "dropped"
    session_id,       \* the String read back from XDG_SESSION_ID, or "none"
    probes,           \* what each check_vt_status() call found, in order
    \* ---- pam.rs: the fields of PasswordlessClient ----
    close_on_drop,
    is_authenticated,
    has_open_session,
    last_code,
    handle,           \* the PamHandle: "none" | "live" | "ended"
    ret,              \* what the last PasswordlessClient method returned
    log,              \* calls made to libpam and logind, with their answers
    \* ---- input.rs: wait_for_keyboard_event ----
    queue,            \* events libinput holds ready, not yet yielded
    seen,             \* events the `for event in &mut input' loop has yielded
    polls,            \* how many times poll() returned
    \* ---- the caller of a PasswordlessClient in ClientSpec ----
    ncalls,           \* method calls made so far
    lastcall,         \* the method called last
    \* ---- pam.rs: converse ----
    handler,          \* the Conversation implementation behind appdata_ptr
    msg,              \* the batch: the msg_style of each message
    cpc,              \* position inside converse
    resp,             \* the calloc'ed array: "null" | "allocated" | "freed"
    slots,            \* resp[k].resp for each k: "NULL" or a strdup'ed text
    heap,             \* the strdup'ed texts that are allocated, by index
    idx,              \* the loop variable i
    result,           \* the local `result'
    out_resp,         \* *out_resp: whether it was written, and the array it got
    calls,            \* the handler methods invoked, in order
    conv_ret          \* the code converse returned, "none" before it returns

mainVars   == <<pc, outcome, exit_status, conn, session_id, probes>>
clientVars == <<close_on_drop, is_authenticated, has_open_session, last_code,
                handle, ret, log>>
inputVars  == <<queue, seen, polls>>
callerVars == <<ncalls, lastcall>>
convVars   == <<handler, msg, cpc, resp, slots, heap, idx, result, out_resp,
                calls, conv_ret>>
vars       == <<mainVars, clientVars, inputVars, callerVars, convVars>>

---------------------------------------------------------------------------
(* Bounds of the model *)

\* the longest batch of messages libpam hands to converse
MaxMsgs == 3
\* the most method calls the caller of ClientSpec makes before dropping
MaxCalls == 3
\* the most events one dispatch() makes ready
MaxBatch == 2
\* the most times poll() returns in one wait
MaxPolls == 2

---------------------------------------------------------------------------
(* Values *)

\* PamReturnCode: the codes libpam answers with in this model
PamCodes == {"Success", "Auth_Err", "Perm_Denied", "Session_Err"}

\* the session identifiers pam_systemd may assign
SessionIds == {"3", "7"}

\* PamResult<T>
Ok(v)  == [ok |-> TRUE, val |-> v]
Err(c) == [ok |-> FALSE, val |-> c]
NoRet  == [ok |-> TRUE, val |-> "-"]

\* *out_resp before converse stores to it
Unwritten == [written |-> FALSE, array |-> <<>>]

\* one entry of the log: the operation, its argument, the answer
Call(op, arg, res) == [op |-> op, arg |-> arg, res |-> res]

Ops(l) == {l[k].op : k \in 1..Len(l)}
Count(l, op) == Cardinality({k \in 1..Len(l) : l[k].op = op})
\* the positions of op in l
At(l, op) == {k \in 1..Len(l) : l[k].op = op}

RECURSIVE SeqsUpTo(_, _)
SeqsUpTo(S, n) ==
    IF n = 0 THEN {<<>>}
    ELSE LET shorter == SeqsUpTo(S, n - 1)
         IN  shorter \cup {Append(s, x) : s \in {t \in shorter : Len(t) = n - 1}, x \in S}

---------------------------------------------------------------------------
(* pam.rs: PasswordlessClient.  Each method is an operator over the        *)
(* client's variables; its parameter is the answer libpam gives.           *)

\* PasswordlessClient::new_client(service): pam_start answers `code'
new_client(service, code) ==
    /\ handle = "none"
    /\ log' = Append(log, Call("pam_start", service, code))
    /\ IF code = "Success"
         THEN /\ handle' = "live"
              /\ close_on_drop' = TRUE
              /\ is_authenticated' = FALSE
              /\ has_open_session' = FALSE
              /\ last_code' = "Success"
              /\ ret' = Ok("client")
         ELSE /\ ret' = Err(code)
              /\ UNCHANGED <<handle, close_on_drop, is_authenticated,
                             has_open_session, last_code>>

\* authenticate setting the flag before it looks at the code
authenticate_flag_first(code) ==
    /\ handle = "live"
    /\ log' = Append(log, Call("pam_authenticate", "None", code))
    /\ last_code' = code
    /\ is_authenticated' = TRUE
    /\ ret' = IF code # "Success" THEN Err(code) ELSE Ok("unit")
    /\ UNCHANGED <<close_on_drop, has_open_session, handle>>

\* PasswordlessClient::authenticate: pam_authenticate answers `code'
authenticate(code) ==
    /\ handle = "live"
    /\ log' = Append(log, Call("pam_authenticate", "None", code))
    /\ last_code' = code
    /\ IF code # "Success"
         THEN /\ ret' = Err(code)
              /\ UNCHANGED is_authenticated
         ELSE /\ is_authenticated' = TRUE
              /\ ret' = Ok("unit")
    /\ UNCHANGED <<close_on_drop, has_open_session, handle>>

\* open_session without the is_authenticated test
open_session_unguarded(code) ==
    /\ handle = "live"
    /\ log' = Append(log, Call("pam_open_session", "false", code))
    /\ last_code' = code
    /\ IF code # "Success"
         THEN /\ ret' = Err(code)
              /\ UNCHANGED has_open_session
         ELSE /\ has_open_session' = TRUE
              /\ ret' = Ok("unit")
    /\ UNCHANGED <<close_on_drop, is_authenticated, handle>>

\* open_session storing the refusal in last_code
open_session_records_refusal(code) ==
    /\ handle = "live"
    /\ IF ~is_authenticated
         THEN /\ ret' = Err("Perm_Denied")
              /\ last_code' = "Perm_Denied"
              /\ UNCHANGED <<log, has_open_session>>
         ELSE /\ log' = Append(log, Call("pam_open_session", "false", code))
              /\ last_code' = code
              /\ IF code # "Success"
                   THEN /\ ret' = Err(code)
                        /\ UNCHANGED has_open_session
                   ELSE /\ has_open_session' = TRUE
                        /\ ret' = Ok("unit")
    /\ UNCHANGED <<close_on_drop, is_authenticated, handle>>

\* PasswordlessClient::open_session: pam_open_session, when reached,
\* answers `code'
open_session(code) ==
    /\ handle = "live"
    /\ IF ~is_authenticated
         THEN /\ ret' = Err("Perm_Denied")
              /\ UNCHANGED <<log, last_code, has_open_session>>
         ELSE /\ log' = Append(log, Call("pam_open_session", "false", code))
              /\ last_code' = code
              /\ IF code # "Success"
                   THEN /\ ret' = Err(code)
                        /\ UNCHANGED has_open_session
                   ELSE /\ has_open_session' = TRUE
                        /\ ret' = Ok("unit")
    /\ UNCHANGED <<close_on_drop, is_authenticated, handle>>

\* PasswordlessClient::get_env(key): pam_getenv answers `answer', one of
\* Err(code), Ok("None"), Ok(value)
get_env(key, answer) ==
    /\ handle = "live"
    /\ log' = Append(log, Call("pam_getenv", key, answer.val))
    /\ ret' = answer
    /\ UNCHANGED <<close_on_drop, is_authenticated, has_open_session,
                   last_code, handle>>

\* PasswordlessClient::set_env(key, value): pam_putenv of "key=value"
\* answers `code'
set_env(key, value, code) ==
    /\ handle = "live"
    /\ log' = Append(log, Call("pam_putenv", key \o "=" \o value, code))
    /\ ret' = IF code = "Success" THEN Ok("unit") ELSE Err(code)
    /\ UNCHANGED <<close_on_drop, is_authenticated, has_open_session,
                   last_code, handle>>

\* Drop that only ends the handle
drop_never_closes(code) ==
    /\ handle = "live"
    /\ log' = Append(log, Call("pam_end", "Success", "Success"))
    /\ handle' = "ended"
    /\ UNCHANGED <<close_on_drop, is_authenticated, has_open_session,
                   last_code, ret>>

\* Drop that gives up when pam_close_session fails
drop_stops_on_close_failure(code) ==
    /\ handle = "live"
    /\ LET closing == has_open_session /\ close_on_drop
       IN  IF closing /\ code # "Success"
             THEN /\ log' = Append(log, Call("pam_close_session", "false", code))
                  /\ UNCHANGED handle
             ELSE /\ log' = log \o (IF closing
                                      THEN <<Call("pam_close_session", "false", code)>>
                                      ELSE <<>>)
                                \o <<Call("pam_end", IF closing THEN code ELSE "Success",
                                           "Success")>>
                  /\ handle' = "ended"
    /\ UNCHANGED <<close_on_drop, is_authenticated, has_open_session,
                   last_code, ret>>

\* Drop closing the session whether or not one was opened
drop_always_closes(code) ==
    /\ handle = "live"
    /\ log' = log \o <<Call("pam_close_session", "false", code),
                        Call("pam_end", code, "Success")>>
    /\ handle' = "ended"
    /\ UNCHANGED <<close_on_drop, is_authenticated, has_open_session,
                   last_code, ret>>

\* Drop for PasswordlessClient: pam_close_session, when reached, answers
\* `code'; pam_end is passed the local `result'
drop(code) ==
    /\ handle = "live"
    /\ LET closing == has_open_session /\ close_on_drop
           res     == IF closing THEN code ELSE "Success"
       IN  log' = log \o (IF closing
                            THEN <<Call("pam_close_session", "false", code)>>
                            ELSE <<>>)
                      \o <<Call("pam_end", res, "Success")>>
    /\ handle' = "ended"
    /\ UNCHANGED <<close_on_drop, is_authenticated, has_open_session,
                   last_code, ret>>

\* what pam_getenv may answer
GetEnvAnswers == {Err(c) : c \in PamCodes \ {"Success"}}
                 \cup {Ok("None")} \cup {Ok(s) : s \in SessionIds}

---------------------------------------------------------------------------
(* main.rs *)

\* include/uapi/linux/kd.h
KDGKBMODE == 19268
K_OFF == 4

\* the keyboard modes the ioctl may report
KbModes == {1, K_OFF}

\* check_vt_status(): what it logs, given the answer of open("/dev/tty1"),
\* the ioctl's return code and the mode the ioctl stored
check_vt_status(open, rc, mode) ==
    IF open = "NotFound"
      THEN [level |-> "info", status |-> "Absent", mode |-> 0]
    ELSE IF open # "Ok"
      THEN [level |-> "error", status |-> "OpenFailed", mode |-> 0]
    ELSE IF rc < 0
      THEN [level |-> "error", status |-> "IoctlFailed", mode |-> 0]
    ELSE IF mode = K_OFF
      THEN [level |-> "info", status |-> "InputDisabled", mode |-> mode]
      ELSE [level |-> "warn", status |-> "InputActive", mode |-> mode]

\* every outcome of one probe
ProbeOutcomes ==
    {check_vt_status(o, rc, m) :
        o \in {"NotFound", "PermissionDenied", "Ok"}, rc \in {-1, 0}, m \in KbModes}

\* the three places take_control() probes, and the statement after each
ProbeSites == {"vt1", "vt2", "vt3"}
AfterProbe(site) ==
    CASE site = "vt1" -> "new_client"
      [] site = "vt2" -> "wait_init"
      [] site = "vt3" -> "scope_end"

\* a panic (expect/unwrap on an Err or None) and an Err returned by `?'
\* both leave the function at once; the locals are dropped on the way out
Panic     == pc' = "unwind" /\ outcome' = "panic"
ReturnErr == pc' = "unwind" /\ outcome' = "err"
Goto(l)   == pc' = l /\ UNCHANGED outcome

\* format!("/org/freedesktop/login1/session/{}", session)
Node(session) == "/org/freedesktop/login1/session/" \o session

\* a probe whose errors are returned to take_control() and propagated
probe_errors_fatal ==
    /\ pc \in ProbeSites
    /\ \E p \in ProbeOutcomes :
          /\ probes' = Append(probes, p)
          /\ IF p.level = "error" THEN ReturnErr
             ELSE IF pc = "vt3" THEN pc' = "unwind" /\ outcome' = "ok"
             ELSE Goto(AfterProbe(pc))
    /\ UNCHANGED <<exit_status, conn, session_id>>
    /\ UNCHANGED <<clientVars, inputVars, callerVars, convVars>>

\* take_control(): check_vt_status() at lines 137, 151, 164
probe ==
    /\ pc \in ProbeSites
    /\ \E p \in ProbeOutcomes : probes' = Append(probes, p)
    /\ IF pc = "vt3" THEN pc' = "unwind" /\ outcome' = "ok"
                     ELSE Goto(AfterProbe(pc))
    /\ UNCHANGED <<exit_status, conn, session_id>>
    /\ UNCHANGED <<clientVars, inputVars, callerVars, convVars>>

\* start_pam_session(): PasswordlessClient::new_client("fallbackdm").expect(..)
start_new_client ==
    /\ pc = "new_client"
    /\ \E code \in PamCodes : new_client("fallbackdm", code)
    /\ IF ret'.ok THEN Goto("set_env_tty") ELSE Panic
    /\ UNCHANGED <<exit_status, conn, session_id, probes>>
    /\ UNCHANGED <<inputVars, callerVars, convVars>>

\* start_set_env_tty with the result dropped instead of returned by `?'
start_set_env_tty_unchecked ==
    /\ pc = "set_env_tty"
    /\ \E code \in PamCodes : set_env("PAM_TTY", "tty1", code)
    /\ Goto("set_env_vtnr")
    /\ UNCHANGED <<exit_status, conn, session_id, probes>>
    /\ UNCHANGED <<inputVars, callerVars, convVars>>

\* start_pam_session(): client.set_env("PAM_TTY", "tty1")?
start_set_env_tty ==
    /\ pc = "set_env_tty"
    /\ \E code \in PamCodes : set_env("PAM_TTY", "tty1", code)
    /\ IF ret'.ok THEN Goto("set_env_vtnr") ELSE ReturnErr
    /\ UNCHANGED <<exit_status, conn, session_id, probes>>
    /\ UNCHANGED <<inputVars, callerVars, convVars>>

\* start_pam_session(): client.set_env("XDG_VTNR", "1")?
start_set_env_vtnr ==
    /\ pc = "set_env_vtnr"
    /\ \E code \in PamCodes : set_env("XDG_VTNR", "1", code)
    /\ IF ret'.ok THEN Goto("authenticate") ELSE ReturnErr
    /\ UNCHANGED <<exit_status, conn, session_id, probes>>
    /\ UNCHANGED <<inputVars, callerVars, convVars>>

\* start_pam_session(): client.authenticate().expect("Authentication failed!")
start_authenticate ==
    /\ pc = "authenticate"
    /\ \E code \in PamCodes : authenticate(code)
    /\ IF ret'.ok THEN Goto("open_session") ELSE Panic
    /\ UNCHANGED <<exit_status, conn, session_id, probes>>
    /\ UNCHANGED <<inputVars, callerVars, convVars>>

\* start_open_session with the result dropped instead of expect()ed
start_open_session_unchecked ==
    /\ pc = "open_session"
    /\ \E code \in PamCodes : open_session(code)
    /\ Goto("get_env")
    /\ UNCHANGED <<exit_status, conn, session_id, probes>>
    /\ UNCHANGED <<inputVars, callerVars, convVars>>

\* start_pam_session(): client.open_session().expect("Failed to open a session!")
start_open_session ==
    /\ pc = "open_session"
    /\ \E code \in PamCodes : open_session(code)
    /\ IF ret'.ok THEN Goto("get_env") ELSE Panic
    /\ UNCHANGED <<exit_status, conn, session_id, probes>>
    /\ UNCHANGED <<inputVars, callerVars, convVars>>

\* start_get_env with the client not bound by the caller (`let (_, id)'),
\* so that it is dropped as soon as the identifier is returned
start_get_env_client_unbound ==
    /\ pc = "get_env"
    /\ handle = "live"
    /\ \E answer \in GetEnvAnswers : \E code \in PamCodes :
          LET got     == answer.ok /\ answer.val # "None"
              closing == has_open_session /\ close_on_drop
          IN  /\ ret' = answer
              /\ log' = Append(log, Call("pam_getenv", "XDG_SESSION_ID", answer.val))
                        \o (IF got /\ closing
                              THEN <<Call("pam_close_session", "false", code)>>
                              ELSE <<>>)
                        \o (IF got
                              THEN <<Call("pam_end", IF closing THEN code ELSE "Success",
                                          "Success")>>
                              ELSE <<>>)
              /\ handle' = IF got THEN "ended" ELSE handle
              /\ IF ~answer.ok THEN ReturnErr /\ UNCHANGED session_id
                 ELSE IF answer.val = "None" THEN Panic /\ UNCHANGED session_id
                 ELSE Goto("connect") /\ session_id' = answer.val
    /\ UNCHANGED <<close_on_drop, is_authenticated, has_open_session, last_code>>
    /\ UNCHANGED <<exit_status, conn, probes>>
    /\ UNCHANGED <<inputVars, callerVars, convVars>>

\* start_pam_session(): client.get_env("XDG_SESSION_ID")?.expect(..), then
\* Ok((client, session_id))
start_get_env ==
    /\ pc = "get_env"
    /\ \E answer \in GetEnvAnswers : get_env("XDG_SESSION_ID", answer)
    /\ IF ~ret'.ok THEN ReturnErr /\ UNCHANGED session_id
       ELSE IF ret'.val = "None" THEN Panic /\ UNCHANGED session_id
       ELSE Goto("connect") /\ session_id' = ret'.val
    /\ UNCHANGED <<exit_status, conn, probes>>
    /\ UNCHANGED <<inputVars, callerVars, convVars>>

\* connect_to_dbus(): Connection::new_system().expect(..)
connect_to_dbus ==
    /\ pc = "connect"
    /\ \E res \in {"Ok", "Error"} :
          /\ log' = Append(log, Call("dbus_connect", "system", res))
          /\ IF res = "Ok" THEN Goto("get_all") /\ conn' = "open"
                           ELSE Panic /\ UNCHANGED conn
    /\ UNCHANGED <<exit_status, session_id, probes>>
    /\ UNCHANGED <<close_on_drop, is_authenticated, has_open_session,
                   last_code, handle, ret>>
    /\ UNCHANGED <<inputVars, callerVars, convVars>>

\* what a method call through the proxy may answer (5000 ms timeout)
DbusAnswers == {"Ok", "Error", "Timeout"}

\* one proxy.method_call(..)? on the session's node; `next' is the
\* statement after it
method_call(at, member, next) ==
    /\ pc = at
    /\ conn = "open"
    /\ \E res \in DbusAnswers :
          /\ log' = Append(log, Call(member, Node(session_id), res))
          /\ IF res = "Ok" THEN Goto(next) ELSE ReturnErr
    /\ UNCHANGED <<exit_status, conn, session_id, probes>>
    /\ UNCHANGED <<close_on_drop, is_authenticated, has_open_session,
                   last_code, handle, ret>>
    /\ UNCHANGED <<inputVars, callerVars, convVars>>

\* the properties query with its answer ignored: TakeControl follows in
\* every case
send_take_control_get_all_ignored ==
    /\ pc = "get_all"
    /\ conn = "open"
    /\ \E res \in DbusAnswers :
          log' = Append(log, Call("GetAll", Node(session_id), res))
    /\ Goto("take_control")
    /\ UNCHANGED <<exit_status, conn, session_id, probes>>
    /\ UNCHANGED <<close_on_drop, is_authenticated, has_open_session,
                   last_code, handle, ret>>
    /\ UNCHANGED <<inputVars, callerVars, convVars>>

\* send_take_control_message(): Properties.GetAll, then the debug! line
send_take_control_get_all == method_call("get_all", "GetAll", "take_control")

\* send_take_control_message(): Session.TakeControl(false)
send_take_control_message == method_call("take_control", "TakeControl", "vt2")

\* send_release_control_message(): Session.ReleaseControl()
send_release_control_message == method_call("release", "ReleaseControl", "vt3")

---------------------------------------------------------------------------
(* input.rs: wait_for_keyboard_event *)

\* the classes of input::Event the loop tells apart
EventClasses == {"Keyboard", "Pointer"}

\* Libinput::new_with_udev(Interface); input.udev_assign_seat("seat0").unwrap()
wait_assign_seat ==
    /\ pc = "wait_init"
    /\ \E ok \in BOOLEAN : IF ok THEN Goto("poll") ELSE Panic
    /\ UNCHANGED <<exit_status, conn, session_id, probes>>
    /\ UNCHANGED <<clientVars, inputVars, callerVars, convVars>>

\* poll::poll(&mut fds, PollTimeout::NONE).unwrap()
wait_poll ==
    /\ pc = "poll"
    /\ polls < MaxPolls
    /\ polls' = polls + 1
    /\ \E ok \in BOOLEAN : IF ok THEN Goto("dispatch") ELSE Panic
    /\ UNCHANGED <<exit_status, conn, session_id, probes, queue, seen>>
    /\ UNCHANGED <<clientVars, callerVars, convVars>>

\* input.dispatch().unwrap(): libinput reads what the devices delivered
wait_dispatch ==
    /\ pc = "dispatch"
    /\ \E ok \in BOOLEAN :
          IF ok
            THEN /\ \E batch \in SeqsUpTo(EventClasses, MaxBatch) :
                        queue' = queue \o batch
                 /\ Goto("iterate")
            ELSE Panic /\ UNCHANGED queue
    /\ UNCHANGED <<exit_status, conn, session_id, probes, seen, polls>>
    /\ UNCHANGED <<clientVars, callerVars, convVars>>

\* the loop returning on whatever event comes first
wait_next_event_any ==
    /\ pc = "iterate"
    /\ IF queue = <<>>
         THEN Goto("poll") /\ UNCHANGED <<queue, seen>>
         ELSE /\ seen' = Append(seen, Head(queue))
              /\ queue' = Tail(queue)
              /\ Goto("release")
    /\ UNCHANGED <<exit_status, conn, session_id, probes, polls>>
    /\ UNCHANGED <<clientVars, callerVars, convVars>>

\* the loop taking the rest of the batch with the Keyboard event before it
\* returns
wait_next_event_drains ==
    /\ pc = "iterate"
    /\ IF queue = <<>>
         THEN Goto("poll") /\ UNCHANGED <<queue, seen>>
         ELSE IF Head(queue) = "Keyboard"
                THEN /\ seen' = seen \o queue
                     /\ queue' = <<>>
                     /\ Goto("release")
                ELSE /\ seen' = Append(seen, Head(queue))
                     /\ queue' = Tail(queue)
                     /\ Goto("iterate")
    /\ UNCHANGED <<exit_status, conn, session_id, probes, polls>>
    /\ UNCHANGED <<clientVars, callerVars, convVars>>

\* one turn of `for event in &mut input': the next event is taken; a
\* Keyboard event returns from the function, any other is printed; with no
\* event left the outer loop polls again
wait_next_event ==
    /\ pc = "iterate"
    /\ IF queue = <<>>
         THEN Goto("poll") /\ UNCHANGED <<queue, seen>>
         ELSE /\ seen' = Append(seen, Head(queue))
              /\ queue' = Tail(queue)
              /\ IF Head(queue) = "Keyboard" THEN Goto("release")
                                             ELSE Goto("iterate")
    /\ UNCHANGED <<exit_status, conn, session_id, probes, polls>>
    /\ UNCHANGED <<clientVars, callerVars, convVars>>

---------------------------------------------------------------------------
(* main.rs: leaving take_control() and main() *)

\* leaving take_control() with a guard that sends ReleaseControl when
\* control was taken and not yet released
drop_locals_releases ==
    /\ pc = "unwind"
    /\ \E code \in PamCodes :
          LET taken   == /\ \E k \in At(log, "TakeControl") : log[k].res = "Ok"
                         /\ At(log, "ReleaseControl") = {}
              live    == handle = "live"
              closing == live /\ has_open_session /\ close_on_drop
          IN  /\ log' = log
                        \o (IF taken
                              THEN <<Call("ReleaseControl", Node(session_id), "Ok")>>
                              ELSE <<>>)
                        \o (IF closing
                              THEN <<Call("pam_close_session", "false", code)>>
                              ELSE <<>>)
                        \o (IF live
                              THEN <<Call("pam_end", IF closing THEN code ELSE "Success",
                                          "Success")>>
                              ELSE <<>>)
              /\ handle' = IF live THEN "ended" ELSE handle
    /\ conn' = IF conn = "open" THEN "dropped" ELSE conn
    /\ pc' = "exit"
    /\ UNCHANGED <<close_on_drop, is_authenticated, has_open_session, last_code, ret>>
    /\ UNCHANGED <<outcome, exit_status, session_id, probes>>
    /\ UNCHANGED <<inputVars, callerVars, convVars>>

\* leaving without running the client's Drop when a panic ended the run
drop_locals_leaks_on_panic ==
    /\ pc = "unwind"
    /\ conn' = IF conn = "open" THEN "dropped" ELSE conn
    /\ IF handle = "live" /\ outcome # "panic"
         THEN \E code \in PamCodes : drop(code)
         ELSE UNCHANGED clientVars
    /\ pc' = "exit"
    /\ UNCHANGED <<outcome, exit_status, session_id, probes>>
    /\ UNCHANGED <<inputVars, callerVars, convVars>>

\* the locals go out of scope, by return or by unwinding (a panic unwinds:
\* the default panic strategy of a Rust binary), in reverse order of
\* declaration: conn, then the PasswordlessClient (its Drop)
drop_locals ==
    /\ pc = "unwind"
    /\ conn' = IF conn = "open" THEN "dropped" ELSE conn
    /\ IF handle = "live" THEN \E code \in PamCodes : drop(code)
                          ELSE UNCHANGED clientVars
    /\ pc' = "exit"
    /\ UNCHANGED <<outcome, exit_status, session_id, probes>>
    /\ UNCHANGED <<inputVars, callerVars, convVars>>

\* main(): take_control()?; Ok(()) -- the process's exit status
ExitStatus(o) ==
    CASE o = "ok"    -> "0"
      [] o = "err"   -> "1"
      [] o = "panic" -> "101"

main_exit ==
    /\ pc = "exit"
    /\ exit_status' = ExitStatus(outcome)
    /\ pc' = "done"
    /\ UNCHANGED <<outcome, conn, session_id, probes>>
    /\ UNCHANGED <<clientVars, inputVars, callerVars, convVars>>

---------------------------------------------------------------------------
(* Initial states *)

NoClient ==
    /\ close_on_drop = TRUE
    /\ is_authenticated = FALSE
    /\ has_open_session = FALSE
    /\ last_code = "Success"
    /\ handle = "none"
    /\ ret = NoRet
    /\ log = <<>>

NoMain ==
    /\ outcome = "running"
    /\ exit_status = "running"
    /\ conn = "none"
    /\ session_id = "none"
    /\ probes = <<>>
    /\ queue = <<>>
    /\ seen = <<>>
    /\ polls = 0

NoCaller ==
    /\ ncalls = 0
    /\ lastcall = "none"

NoConv ==
    /\ handler = "none"
    /\ msg = <<>>
    /\ cpc = "idle"
    /\ resp = "null"
    /\ slots = <<>>
    /\ heap = {}
    /\ idx = 0
    /\ result = "Success"
    /\ out_resp = Unwritten
    /\ calls = <<>>
    /\ conv_ret = "none"

\* main() is entered
Init ==
    /\ pc = "vt1"
    /\ NoMain /\ NoClient /\ NoCaller /\ NoConv

Next ==
    \/ probe
    \/ start_new_client
    \/ start_set_env_tty
    \/ start_set_env_vtnr
    \/ start_authenticate
    \/ start_open_session
    \/ start_get_env
    \/ connect_to_dbus
    \/ send_take_control_get_all
    \/ send_take_control_message
    \/ wait_assign_seat
    \/ wait_poll
    \/ wait_dispatch
    \/ wait_next_event
    \/ send_release_control_message
    \/ drop_locals
    \/ main_exit

Spec == Init /\ [][Next]_vars

\* main() runs on one thread that nothing preempts for good: when the
\* `for event in &mut input' loop can take a turn, it does
FairSpec == Spec /\ WF_vars(wait_next_event)

---------------------------------------------------------------------------
(* ClientSpec: a caller that constructs a PasswordlessClient, calls its    *)
(* methods in any order with any answers from libpam, and drops it.        *)

called(name) ==
    /\ ncalls < MaxCalls
    /\ ncalls' = ncalls + 1
    /\ lastcall' = name
    /\ UNCHANGED <<mainVars, inputVars, convVars>>

caller_new ==
    /\ lastcall = "none"
    /\ \E code \in PamCodes : new_client("fallbackdm", code)
    /\ lastcall' = "new_client"
    /\ UNCHANGED <<ncalls, mainVars, inputVars, convVars>>

caller_authenticate ==
    /\ \E code \in PamCodes : authenticate(code)
    /\ called("authenticate")

caller_open_session ==
    /\ \E code \in PamCodes : open_session(code)
    /\ called("open_session")

caller_get_env ==
    /\ \E answer \in GetEnvAnswers : get_env("XDG_SESSION_ID", answer)
    /\ called("get_env")

caller_set_env ==
    /\ \E code \in PamCodes : set_env("PAM_TTY", "tty1", code)
    /\ called("set_env")

caller_drop ==
    /\ \E code \in PamCodes : drop(code)
    /\ lastcall' = "drop"
    /\ UNCHANGED <<ncalls, mainVars, inputVars, convVars>>

ClientInit ==
    /\ pc = "caller"
    /\ NoMain /\ NoClient /\ NoCaller /\ NoConv

ClientNext ==
    \/ caller_new
    \/ caller_authenticate
    \/ caller_open_session
    \/ caller_get_env
    \/ caller_set_env
    \/ caller_drop

ClientSpec == ClientInit /\ [][ClientNext]_vars

---------------------------------------------------------------------------
(* pam.rs: the conversation *)

\* PamMessageStyle
Styles == {"Prompt_Echo_On", "Prompt_Echo_Off", "Text_Info", "Error_Msg"}
PromptStyles == {"Prompt_Echo_On", "Prompt_Echo_Off"}

\* "SimpleConv" is the handler of this program; "Conversation" stands for
\* any other implementation of the trait, whose prompts may fail
Handlers == {"SimpleConv", "Conversation"}

\* impl Conversation for SimpleConv
SimpleConv_prompt_echo  == Ok("root")
SimpleConv_prompt_blind == Ok("no password")

\* what handler.prompt_echo / handler.prompt_blind may return
Answers(h, method) ==
    IF h = "SimpleConv"
      THEN {IF method = "prompt_echo" THEN SimpleConv_prompt_echo
                                      ELSE SimpleConv_prompt_blind}
      ELSE {Ok("text"), Err("unit")}

num_msg == Len(msg)

\* converse, lines 156-165: calloc of the response array; a null answer
\* returns Buf_Err at once
converse_enter ==
    /\ cpc = "enter"
    /\ \E null \in BOOLEAN :
          IF null
            THEN /\ conv_ret' = "Buf_Err"
                 /\ cpc' = "returned"
                 /\ UNCHANGED <<resp, slots, idx, result>>
            ELSE /\ resp' = "allocated"
                 /\ slots' = [k \in 1..num_msg |-> "NULL"]
                 /\ result' = "Success"
                 /\ idx' = 0
                 /\ cpc' = IF 0 < num_msg THEN "loop" ELSE "exit"
                 /\ UNCHANGED conv_ret
    /\ UNCHANGED <<handler, msg, heap, out_resp, calls>>
    /\ UNCHANGED <<mainVars, clientVars, inputVars, callerVars>>

\* the loop without its break: the next message is handled whatever the
\* result
loop_end_no_break ==
    idx' = idx + 1 /\ cpc' = IF idx + 1 < num_msg THEN "loop" ELSE "exit"

\* lines 197-199 and the for's own step: break on a failure, else i + 1
loop_end ==
    IF result' # "Success"
      THEN cpc' = "exit" /\ UNCHANGED idx
      ELSE idx' = idx + 1 /\ cpc' = IF idx + 1 < num_msg THEN "loop" ELSE "exit"

\* libc strdup: a copy of the text, or NULL when no memory is left
strdup(text, null) == IF null THEN "NULL" ELSE text

\* a prompt arm of the match: the handler is asked; on Ok(text) r.resp is
\* assigned what strdup returns, untested; Err sets result
prompt_arm(method) ==
    \E answer \in Answers(handler, method) :
       /\ calls' = Append(calls, [method |-> method, at |-> idx + 1, res |-> answer])
       /\ IF answer.ok
            THEN /\ \E null \in BOOLEAN :
                       /\ slots' = [slots EXCEPT ![idx + 1] = strdup(answer.val, null)]
                       /\ heap' = IF null
                                    THEN heap
                                    ELSE heap \cup {[at |-> idx + 1, text |-> answer.val]}
                 /\ UNCHANGED result
            ELSE /\ result' = "Conv_Err"
                 /\ UNCHANGED <<slots, heap>>

\* one turn of the for loop, lines 166-200
converse_loop ==
    /\ cpc = "loop"
    /\ idx < num_msg
    /\ \/ /\ msg[idx + 1] = "Prompt_Echo_On"
          /\ prompt_arm("prompt_echo")
       \/ /\ msg[idx + 1] = "Prompt_Echo_Off"
          /\ prompt_arm("prompt_blind")
       \/ /\ msg[idx + 1] = "Text_Info"
          /\ calls' = Append(calls, [method |-> "info", at |-> idx + 1, res |-> Ok("unit")])
          /\ UNCHANGED <<slots, heap, result>>
       \/ /\ msg[idx + 1] = "Error_Msg"
          /\ calls' = Append(calls, [method |-> "error", at |-> idx + 1, res |-> Ok("unit")])
          /\ result' = "Conv_Err"
          /\ UNCHANGED <<slots, heap>>
    /\ loop_end
    /\ UNCHANGED <<handler, msg, resp, out_resp, conv_ret>>
    /\ UNCHANGED <<mainVars, clientVars, inputVars, callerVars>>

\* the return path storing to *out_resp before it frees
converse_exit_always_stores ==
    /\ cpc = "exit"
    /\ out_resp' = [written |-> TRUE, array |-> slots]
    /\ resp' = IF result # "Success" THEN "freed" ELSE resp
    /\ conv_ret' = result
    /\ cpc' = "returned"
    /\ UNCHANGED <<handler, msg, slots, heap, idx, result, calls>>
    /\ UNCHANGED <<mainVars, clientVars, inputVars, callerVars>>

\* lines 202-209: free(resp) on a failure, else *out_resp = resp; return
converse_exit ==
    /\ cpc = "exit"
    /\ IF result # "Success"
         THEN resp' = "freed" /\ UNCHANGED out_resp
         ELSE out_resp' = [written |-> TRUE, array |-> slots] /\ UNCHANGED resp
    /\ conv_ret' = result
    /\ cpc' = "returned"
    /\ UNCHANGED <<handler, msg, slots, heap, idx, result, calls>>
    /\ UNCHANGED <<mainVars, clientVars, inputVars, callerVars>>

\* libpam calls the callback with a batch of num_msg messages
ConvInit ==
    /\ pc = "pam"
    /\ NoMain /\ NoClient /\ NoCaller
    /\ handler \in Handlers
    /\ msg \in SeqsUpTo(Styles, MaxMsgs)
    /\ cpc = "enter"
    /\ resp = "null"
    /\ slots = <<>>
    /\ heap = {}
    /\ idx = 0
    /\ result = "Success"
    /\ out_resp = Unwritten
    /\ calls = <<>>
    /\ conv_ret = "none"

ConvNext ==
    \/ converse_enter
    \/ converse_loop
    \/ converse_exit

ConvSpec == ConvInit /\ [][ConvNext]_vars

---------------------------------------------------------------------------
(* Properties *)

\* the positions in the log of the calls of op that were answered res
Answered(op, res) == {k \in At(log, op) : log[k].res = res}
\* some pam_authenticate was answered with a failure
AuthenticateFailed == At(log, "pam_authenticate") # Answered("pam_authenticate", "Success")
\* some pam_open_session was answered with a failure
OpenSessionFailed == At(log, "pam_open_session") # Answered("pam_open_session", "Success")

\* C1 (Spec): TakeControl is sent only after authenticate and then
\* open_session succeeded in this run, and never in a run in which either
\* of them failed.
C1_TakeControlOnlyAfterSession ==
    \A t \in At(log, "TakeControl") :
       /\ \E a \in Answered("pam_authenticate", "Success") :
          \E o \in Answered("pam_open_session", "Success") : a < o /\ o < t
       /\ ~AuthenticateFailed
       /\ ~OpenSessionFailed
       /\ is_authenticated /\ has_open_session

C1_Witness == At(log, "TakeControl") # {}

\* C2 (Spec): once authenticate has failed the run only unwinds and exits:
\* the exit status is not zero, no connection to the bus exists or is asked
\* for, no call goes to logind, no pam_close_session is made, and the
\* handle has been ended, once, when the process exits.
C2_AuthenticateFailureIsFatal ==
    AuthenticateFailed =>
       /\ pc \in {"unwind", "exit", "done"}
       /\ pc # "done" => ENABLED Next
       /\ exit_status # "0"
       /\ pc = "done" => exit_status = "101"
       /\ conn = "none"
       /\ Ops(log) \cap {"dbus_connect", "GetAll", "TakeControl", "ReleaseControl"} = {}
       /\ "pam_close_session" \notin Ops(log)
       /\ pc \in {"exit", "done"} => handle = "ended" /\ Count(log, "pam_end") = 1

C2_Witness == AuthenticateFailed /\ pc = "done"

\* C3 (ClientSpec): whatever calls were made with whatever answers,
\* has_open_session implies is_authenticated.
C3_OpenSessionImpliesAuthenticated == has_open_session => is_authenticated

C3_Witness ==
    /\ has_open_session
    /\ lastcall = "authenticate"
    /\ ~ret.ok

\* C4 (ClientSpec): a call of open_session made while is_authenticated is
\* false returns Err(Perm_Denied), makes no call to libpam, and leaves
\* has_open_session false and last_code as it was.
C4_OpenSessionRefused ==
    [][(lastcall' = "open_session" /\ ncalls' = ncalls + 1 /\ ~is_authenticated)
         => /\ ret' = Err("Perm_Denied")
            /\ log' = log
            /\ ~has_open_session /\ ~has_open_session'
            /\ last_code' = last_code]_vars

C4_Witness ==
    /\ lastcall = "open_session"
    /\ ~is_authenticated
    /\ ret = Err("Perm_Denied")
    /\ last_code = "Auth_Err"

\* C5 as claimed (ClientSpec): after an authenticate call that returned an
\* error, is_authenticated and has_open_session are both false, whatever
\* calls came before.
C5_Original ==
    (lastcall = "authenticate" /\ ~ret.ok) => ~is_authenticated /\ ~has_open_session

\* C5 as amended (ClientSpec): an authenticate call that returns an error
\* leaves is_authenticated and has_open_session as they were; so both are
\* false after it when no earlier authenticate call on this client had
\* succeeded.
C5_FailedAuthenticateKeepsFlags ==
    [][(lastcall' = "authenticate" /\ ncalls' = ncalls + 1 /\ ~ret'.ok)
         => /\ is_authenticated' = is_authenticated
            /\ has_open_session' = has_open_session
            /\ Answered("pam_authenticate", "Success") = {}
                  => ~is_authenticated' /\ ~has_open_session']_vars

C5_Witness ==
    /\ lastcall = "authenticate"
    /\ ~ret.ok
    /\ ncalls >= 2
    /\ Answered("pam_authenticate", "Success") = {}
    /\ ~is_authenticated /\ ~has_open_session

\* C6 (ClientSpec): pam_close_session is called by the teardown only, and
\* the teardown of a client whose has_open_session is true has called it
\* exactly once, whatever pam_close_session answered.
C6_TeardownClosesOnce ==
    /\ handle # "ended" => Count(log, "pam_close_session") = 0
    /\ (handle = "ended" /\ has_open_session) => Count(log, "pam_close_session") = 1

C6_Witness ==
    /\ handle = "ended"
    /\ has_open_session
    /\ At(log, "pam_close_session") # Answered("pam_close_session", "Success")

\* a PasswordlessClient was constructed in this run
ClientConstructed == Answered("pam_start", "Success") # {}

\* C7 (Spec): the handle of a constructed client is ended at most once, and
\* exactly once by the time the process exits, on every way out; a
\* pam_close_session comes before the pam_end, also when it failed.
C7_HandleEndedOnce ==
    /\ Count(log, "pam_end") <= 1
    /\ (ClientConstructed /\ pc \in {"exit", "done"})
          => Count(log, "pam_end") = 1 /\ handle = "ended"
    /\ ~ClientConstructed => Count(log, "pam_end") = 0
    /\ \A c \in At(log, "pam_close_session") :
          /\ \A e \in At(log, "pam_end") : c < e
          /\ pc \in {"exit", "done"} => At(log, "pam_end") # {}

C7_Witness ==
    /\ pc = "done"
    /\ outcome = "err"
    /\ At(log, "pam_close_session") # Answered("pam_close_session", "Success")
    /\ Count(log, "pam_end") = 1

\* the elements of a response array that hold a text
Populated(a) == {k \in 1..Len(a) : a[k] # "NULL"}
\* the prompt-style messages of a batch
Prompts(m) == {k \in 1..Len(m) : m[k] \in PromptStyles}
\* the handler method a prompt style is dispatched to
MethodOf(style) == IF style = "Prompt_Echo_On" THEN "prompt_echo" ELSE "prompt_blind"

\* C8 (ConvSpec): for every batch converse returns Success for, the array
\* handed back has one element per message; the element of each
\* prompt-style message holds the handler's answer to that message, the
\* element of any other message is empty, so the populated elements are
\* as many as the prompts and in their order.
C8_SuccessfulBatchAnswersEachPrompt ==
    (cpc = "returned" /\ conv_ret = "Success") =>
       /\ out_resp.written
       /\ Len(out_resp.array) = num_msg
       /\ Cardinality(Populated(out_resp.array)) = Cardinality(Prompts(msg))
       /\ Len(calls) = num_msg
       /\ \A k \in 1..num_msg :
             /\ calls[k].at = k
             /\ IF msg[k] \in PromptStyles
                  THEN /\ calls[k].method = MethodOf(msg[k])
                       /\ calls[k].res.ok
                       /\ out_resp.array[k] = calls[k].res.val
                  ELSE out_resp.array[k] = "NULL"

\* C9 (ConvSpec): a batch holding an Error_Msg message makes converse
\* return a failure (Conv_Err whenever the response array was allocated)
\* with *out_resp not stored to; *out_resp is stored to only when every
\* message of the batch was handled and the result is Success.
C9_ErrorBatchFails ==
    /\ (cpc = "returned" /\ \E k \in 1..num_msg : msg[k] = "Error_Msg") =>
          /\ conv_ret \in {"Conv_Err", "Buf_Err"}
          /\ resp # "null" => conv_ret = "Conv_Err"
          /\ ~out_resp.written
    /\ out_resp.written =>
          /\ cpc = "returned" /\ conv_ret = "Success" /\ result = "Success"
          /\ idx = num_msg /\ Len(calls) = num_msg

C9_Witness ==
    /\ cpc = "returned"
    /\ msg = <<"Prompt_Echo_On", "Prompt_Echo_Off", "Error_Msg">>
    /\ conv_ret = "Conv_Err"
    /\ ~out_resp.written
    /\ Len(calls) = 3

\* C10 as claimed (ConvSpec): after a batch failed, no response text that
\* was allocated for it is still allocated.
C10_FailedBatchFreesResponses ==
    (cpc = "returned" /\ conv_ret # "Success") => heap = {}

\* where main() is while wait_for_keyboard_event runs
WaitPcs == {"wait_init", "poll", "dispatch", "iterate"}
\* the elements of a sequence
Range(s) == {s[k] : k \in 1..Len(s)}

\* C11 (FairSpec): wait_for_keyboard_event returns only by taking a Keyboard
\* event; an event of another class keeps it in its loop, and with no
\* event left it polls again; once a Keyboard event is among the events
\* ready for the loop, the wait eventually returns.
C11_WaitReturnsOnKeyboardOnly ==
    /\ [][(pc \in WaitPcs /\ pc' \notin WaitPcs /\ pc' # "unwind")
            => /\ pc = "iterate" /\ queue # <<>> /\ Head(queue) = "Keyboard"
               /\ pc' = "release"]_vars
    /\ [][(pc = "iterate" /\ queue # <<>> /\ Head(queue) # "Keyboard")
            => pc' = "iterate"]_vars
    /\ [][(pc = "iterate" /\ queue = <<>>) => pc' = "poll"]_vars
    /\ (pc = "iterate" /\ "Keyboard" \in Range(queue)) ~> (pc = "release")

C11_Witness ==
    /\ pc = "release"
    /\ polls = 2
    /\ seen = <<"Pointer", "Pointer", "Keyboard">>

\* ReleaseControl was sent and answered Ok
ReleaseSucceeded == Answered("ReleaseControl", "Ok") # {}

\* C12 (Spec): the wait runs after a TakeControl that succeeded and before
\* any ReleaseControl; ReleaseControl is sent after the wait returned on a
\* Keyboard event; pam_close_session comes after every call to logind;
\* and a run in which ReleaseControl succeeded closes the session once and
\* exits with status 0, which no other run does.
C12_SuccessfulRunOrder ==
    /\ pc \in WaitPcs =>
          /\ Answered("TakeControl", "Ok") # {}
          /\ Ops(log) \cap {"ReleaseControl", "pam_close_session", "pam_end"} = {}
    /\ \A r \in At(log, "ReleaseControl") :
          /\ \E t \in Answered("TakeControl", "Ok") : t < r
          /\ seen # <<>> /\ seen[Len(seen)] = "Keyboard"
    /\ \A c \in At(log, "pam_close_session") :
          \A k \in At(log, "TakeControl") \cup At(log, "ReleaseControl") : k < c
    /\ ReleaseSucceeded =>
          /\ pc \in {"vt3", "unwind", "exit", "done"}
          /\ outcome \in {"running", "ok"}
          /\ pc = "done" =>
                /\ exit_status = "0"
                /\ Count(log, "pam_close_session") = 1
                /\ Count(log, "pam_end") = 1
    /\ exit_status = "0" => ReleaseSucceeded

C12_Witness ==
    /\ exit_status = "0"
    /\ \E t \in Answered("TakeControl", "Ok") :
       \E r \in Answered("ReleaseControl", "Ok") :
       \E c \in At(log, "pam_close_session") : t < r /\ r < c

\* the statement that follows the probe made at `site'
FollowsProbe(site) == IF site = "vt3" THEN "unwind" ELSE AfterProbe(site)

\* C13 (Spec): at each of the three probes every outcome is possible and
\* every outcome is followed by the same statement; the probe changes
\* nothing but the record of what it found: the client, the connection,
\* the session identifier and the exit status are as before.
C13_ProbeNeverAborts ==
    /\ [](pc \in ProbeSites =>
            \A p \in ProbeOutcomes :
               ENABLED (probe /\ probes' = Append(probes, p)
                              /\ pc' = FollowsProbe(pc)))
    /\ [][(pc \in ProbeSites) =>
            (/\ pc' = FollowsProbe(pc)
             /\ outcome' = (IF pc = "vt3" THEN "ok" ELSE outcome)
             /\ \E p \in ProbeOutcomes : probes' = Append(probes, p)
             /\ UNCHANGED <<clientVars, conn, session_id, exit_status, inputVars>>)]_vars

C13_Witness ==
    /\ pc = "done"
    /\ exit_status = "0"
    /\ Len(probes) = 3
    /\ probes[1].status = "Absent"
    /\ probes[2].status = "OpenFailed"
    /\ probes[3].status = "IoctlFailed"

\* C14 (Spec): a run in which TakeControl succeeded and a later step
\* panicked (the wait: udev_assign_seat, poll or dispatch failed) only
\* unwinds and exits, and ReleaseControl is never sent in it: control is
\* left taken.  The witness is such a run, ended.
C14_FailedWaitNeverReleases ==
    (Answered("TakeControl", "Ok") # {} /\ outcome = "panic") =>
       /\ pc \in {"unwind", "exit", "done"}
       /\ "ReleaseControl" \notin Ops(log)
       /\ seen = <<>> \/ seen[Len(seen)] # "Keyboard"

C14_Witness ==
    /\ pc = "done"
    /\ exit_status = "101"
    /\ Answered("TakeControl", "Ok") # {}
    /\ "ReleaseControl" \notin Ops(log)
    /\ "pam_close_session" \in Ops(log)

\* every call of op1 in the log comes before every call of op2
Before(op1, op2) == \A j \in At(log, op1) : \A k \in At(log, op2) : j < k

\* C15 as claimed (Spec): authenticate, then the environment hints, then
\* open_session, then the read-back; no hint is set before authenticate
\* has succeeded.
C15_Original ==
    /\ \A p \in At(log, "pam_putenv") :
          \E a \in Answered("pam_authenticate", "Success") : a < p
    /\ Before("pam_putenv", "pam_open_session")
    /\ Before("pam_open_session", "pam_getenv")

\* C15 as amended (Spec): the environment hints PAM_TTY and XDG_VTNR are
\* set first, both before authenticate is called and both successfully;
\* then authenticate, then open_session, then the read-back of
\* XDG_SESSION_ID, each only after the one before it succeeded; no hint is
\* set after authenticate.
C15_CredentialStepOrder ==
    /\ Before("pam_putenv", "pam_authenticate")
    /\ Before("pam_authenticate", "pam_open_session")
    /\ Before("pam_open_session", "pam_getenv")
    /\ At(log, "pam_authenticate") # {} =>
          /\ Count(log, "pam_putenv") = 2
          /\ \E p \in At(log, "pam_putenv") : \E q \in At(log, "pam_putenv") :
                /\ p < q
                /\ log[p] = Call("pam_putenv", "PAM_TTY=tty1", "Success")
                /\ log[q] = Call("pam_putenv", "XDG_VTNR=1", "Success")
    /\ At(log, "pam_open_session") # {} => ~AuthenticateFailed
    /\ At(log, "pam_getenv") # {} => ~OpenSessionFailed
    /\ \A op \in {"pam_authenticate", "pam_open_session", "pam_getenv"} :
          Count(log, op) <= 1

C15_Witness ==
    /\ At(log, "pam_getenv") # {}
    /\ Len(log) = 6

\* the libpam calls whose answer is a status of the credential
StatusOps == {"pam_authenticate", "pam_open_session", "pam_close_session"}
\* the greatest element of a non-empty set of numbers
Max(S) == CHOOSE m \in S : \A k \in S : k <= m

\* C16 as claimed (Spec): pam_end is passed the answer of the most recent
\* of pam_authenticate, pam_open_session and pam_close_session made on
\* the handle.
C16_EndGetsLastStatus ==
    \A e \in At(log, "pam_end") :
       LET prior == {k \in 1..(e - 1) : log[k].op \in StatusOps}
       IN  prior # {} => log[e].arg = log[Max(prior)].res

\* the k-th handler invocation is for a failing request: an Error_Msg
\* message, or a prompt that the handler answered with Err
FailingCall(k) == msg[calls[k].at] = "Error_Msg" \/ ~calls[k].res.ok

\* C17 (ConvSpec): the handler is invoked for the messages in order, one
\* invocation each, and no invocation follows one for a failing request:
\* a failing invocation is the last of the batch, and once result is a
\* failure no further invocation is made.
C17_NoDispatchAfterFailure ==
    /\ [](\A k \in 1..Len(calls) :
             /\ calls[k].at = k
             /\ k < Len(calls) => ~FailingCall(k))
    /\ [](result # "Success" => (calls # <<>> /\ FailingCall(Len(calls))))
    /\ [][(result # "Success") => (calls' = calls)]_vars

C17_Witness ==
    /\ cpc = "returned"
    /\ Len(msg) = 3
    /\ Len(calls) = 1
    /\ ~calls[1].res.ok

\* C18 as stated (Spec): once a Keyboard event was taken, every event that
\* was ready with it has been consumed: none is left in the queue.
C18_Original == "Keyboard" \in Range(seen) => queue = <<>>

\* C18 (Spec): a batch without a Keyboard event is consumed whole before the
\* next poll; a batch with one is consumed up to and including its first
\* Keyboard event, which ends the wait: the events ready after it are never
\* consumed.
C18_BatchDrainedUpToKeyboard ==
    /\ []((pc \in {"poll", "dispatch"})
            => (queue = <<>> /\ "Keyboard" \notin Range(seen)))
    /\ []("Keyboard" \in Range(seen)
            => /\ pc \notin WaitPcs
               /\ seen[Len(seen)] = "Keyboard"
               /\ \A k \in 1..(Len(seen) - 1) : seen[k] # "Keyboard")
    /\ [][("Keyboard" \in Range(seen)) => (queue' = queue /\ seen' = seen)]_vars

C18_Witness ==
    /\ pc = "done"
    /\ seen = <<"Pointer", "Keyboard">>
    /\ queue = <<"Keyboard">>

\* the properties query was sent and did not answer Ok
GetAllFailed == \E g \in At(log, "GetAll") : log[g].res # "Ok"

\* C19 (Spec): every TakeControl follows a GetAll that answered Ok; a GetAll
\* that answered an error or timed out ends the run with an error (exit
\* status 1) and neither TakeControl nor ReleaseControl is ever sent.
C19_TakeControlOnlyAfterGetAll ==
    /\ \A t \in At(log, "TakeControl") :
          \E g \in At(log, "GetAll") : g < t /\ log[g].res = "Ok"
    /\ GetAllFailed =>
          /\ outcome = "err"
          /\ pc \in {"unwind", "exit", "done"}
          /\ Count(log, "TakeControl") = 0
          /\ Count(log, "ReleaseControl") = 0
          /\ pc = "done" => exit_status = "1"

C19_Witness ==
    /\ pc = "done"
    /\ Answered("GetAll", "Timeout") # {}
    /\ exit_status = "1"

\* the calls made through the logind proxy
RemoteCalls == {"GetAll", "TakeControl", "ReleaseControl"}

\* C20 (Spec): pam_close_session is never sent twice; once pam_open_session
\* answered Success, the run has sent pam_close_session exactly once by the
\* time main is left, whatever ended it; no call to logind follows the
\* pam_close_session.
C20_SessionClosedOnceAtEveryEnd ==
    /\ Count(log, "pam_close_session") <= 1
    /\ (Answered("pam_open_session", "Success") # {} /\ pc \in {"exit", "done"})
          => Count(log, "pam_close_session") = 1
    /\ \A c \in At(log, "pam_close_session") :
          /\ \E o \in Answered("pam_open_session", "Success") : o < c
          /\ \A k \in (c + 1)..Len(log) : log[k].op \notin RemoteCalls

C20_Witness ==
    /\ pc = "done"
    /\ outcome = "panic"
    /\ conn = "none"
    /\ Answered("pam_open_session", "Success") # {}
    /\ Count(log, "pam_close_session") = 1

=============================================================================
